---- MODULE Spec2Model ----
(***************************************************************************)
(* Model of VisaApplicationFormComponent, the dynamic form engine of       *)
(* src/frontend/src/components/Sidebar.tsx (lines 101-702).                *)
(*                                                                         *)
(* One step of the model is one run of a handler to its end or to its      *)
(* await: React commits the state updates a handler batches before the     *)
(* next event is dispatched, so a handler's closures read the state the    *)
(* previous step left.  submissionInProgress is a ref and is written in    *)
(* place.  Time is counted in seconds.                                     *)
(***************************************************************************)
EXTENDS Integers, Sequences, FiniteSets, TLC

VARIABLES
    validationRules,       \* the module-level rule list (line 135), fixed per session
    formData,              \* useState formData (line 138): key -> value
    errors,                \* useState errors (line 139): field id -> message
    status,                \* useState status (line 140)
    isSubmitting,          \* useState isSubmitting (line 141)
    submissionInProgress,  \* useRef guard (line 145)
    inflight,              \* onSubmit calls handleSubmit is awaiting (line 253), with their payloads
    statusTimer,           \* the timer of the status effect (lines 148-155)
    resetTimers,           \* the form-reset timers of line 261, oldest first
    mounted,               \* FALSE once the component is unmounted
    filePreview,           \* useState filePreview (line 144): key -> preview URL
    handles,               \* the object URLs created so far: for each, how often it was revoked
    pendingReads,          \* FileReader loads not yet ended (lines 343-351)
    checked,               \* the options of the checkbox group that are ticked, in ticking order
    trial,                 \* the input a function or handler is tried on, and what it returned
    awaitEdits,            \* history: the edits made during the latest await that still stand
    last                   \* history: the step just taken, its input and its console output

\* The state only the field handlers outside handleChange and handleSubmit use.
fieldVars == <<filePreview, handles, pendingReads, checked, trial>>

vars == <<validationRules, formData, errors, status, isSubmitting,
          submissionInProgress, inflight, statusTimer, resetTimers, mounted,
          fieldVars, awaitEdits, last>>

----------------------------------------------------------------------------
(* Bounds of the model *)

\* No submit request is modelled while this many form-reset timers are pending.
MaxResetTimers == 2
\* No further onSubmit call is modelled while this many are awaited.
MaxInFlight == 2

(* Program constants *)

\* setTimeout(..., 5000) at lines 150-152 and 261-263, in seconds.
DisplayWindow == 5

----------------------------------------------------------------------------
(* Schema: form_data of src/unnamed/part_000, two of its fields. *)

passport_number_id == <<"p","a","s","s","p","o","r","t","-","n","u","m","b","e","r">>
travel_dates_id == <<"t","r","a","v","e","l","-","d","a","t","e","s">>

form_data == <<
    [id |-> passport_number_id, type |-> "text", required |-> TRUE],
    [id |-> travel_dates_id,    type |-> "date", required |-> FALSE] >>

FieldIds == {form_data[i].id : i \in DOMAIN form_data}

\* The values an input element delivers; "" is the cleared input.
Values == {"", "x"}

\* String.prototype.replace(/c/g, d)
ReplaceAll(s, c, d) == [i \in DOMAIN s |-> IF s[i] = c THEN d ELSE s[i]]

\* Mutant of fieldKey: the name is used as the key as it is.
fieldKeyUnnormalised(name) == name

\* name.replace(/-/g, '_')  (lines 197, 278, 298, 328, 361, 367, 385)
fieldKey(name) == ReplaceAll(name, "-", "_")

\* Mutant of fieldId: the key is used as the id as it is.
fieldIdUnchanged(key) == key

\* fieldKey.replace(/_/g, '-')  (line 235)
fieldId(key) == ReplaceAll(key, "_", "-")

EmptyMap == [k \in {} |-> ""]

\* value={formData['passport_number'] || ''}: what a field shows (line 483)
currentValue(values, id) ==
    IF fieldKey(id) \in DOMAIN values THEN values[fieldKey(id)] ELSE ""

Put(m, k, v) == [x \in DOMAIN m \cup {k} |-> IF x = k THEN v ELSE m[x]]

Delete(m, k) == [x \in DOMAIN m \ {k} |-> m[x]]

----------------------------------------------------------------------------
(* Validation rules.  generated_code is arbitrary script; a snippet is     *)
(* modelled by what running it on a value does.                            *)

Snippets == {"nonEmpty", "always", "never", "throws", "syntaxError"}

\* What new Function(...)(value) of lines 172-184 does for a snippet:
\* "true"/"false" is the truthiness of its result, "throw" an exception
\* inside the snippet, "syntax" a snippet new Function cannot compile.
RunSnippet(code, value) ==
    CASE code = "nonEmpty"    -> IF value # "" THEN "true" ELSE "false"
      [] code = "always"      -> "true"
      [] code = "never"       -> "false"
      [] code = "throws"      -> "throw"
      [] code = "syntaxError" -> "syntax"

NoRules == << >>

PassportRequired ==
    << [field_id |-> passport_number_id, generated_code |-> "nonEmpty",
        prompt |-> "Passport number is required", description |-> ""] >>

\* The rule lists a session may be generated with; NoRules is line 135.
RuleSets == {NoRules, PassportRequired}

\* Mutant of ruleMessage: the description is preferred to the prompt.
ruleMessageDescriptionFirst(rule) ==
    IF rule.description # "" THEN rule.description
    ELSE IF rule.prompt # "" THEN rule.prompt
    ELSE "Invalid input"

\* rule.prompt || rule.description || 'Invalid input'  (line 186)
ruleMessage(rule) ==
    IF rule.prompt # "" THEN rule.prompt
    ELSE IF rule.description # "" THEN rule.description
    ELSE "Invalid input"

NoConsole == [duplicate |-> 0, execution |-> 0, creation |-> 0]

\* Mutant of applyRules: a snippet that throws counts as a failed rule.
RECURSIVE applyRulesFailClosed(_, _)
applyRulesFailClosed(fieldRules, value) ==
    IF fieldRules = << >> THEN [message |-> "", execution |-> 0, creation |-> 0]
    ELSE LET rule == Head(fieldRules)
             out  == RunSnippet(rule.generated_code, value)
             rest == applyRulesFailClosed(Tail(fieldRules), value)
         IN  CASE out = "syntax" -> [rest EXCEPT !.creation = @ + 1]
               [] out = "throw"  -> [message |-> ruleMessage(rule), execution |-> 1, creation |-> 0]
               [] out = "false"  -> [message |-> ruleMessage(rule), execution |-> 0, creation |-> 0]
               [] out = "true"   -> rest

\* Mutant of applyRules: a snippet that throws ends the loop, the field valid.
RECURSIVE applyRulesStopAtThrow(_, _)
applyRulesStopAtThrow(fieldRules, value) ==
    IF fieldRules = << >> THEN [message |-> "", execution |-> 0, creation |-> 0]
    ELSE LET rule == Head(fieldRules)
             out  == RunSnippet(rule.generated_code, value)
             rest == applyRulesStopAtThrow(Tail(fieldRules), value)
         IN  CASE out = "syntax" -> [message |-> "", execution |-> 0, creation |-> 1]
               [] out = "throw"  -> [message |-> "", execution |-> 1, creation |-> 0]
               [] out = "false"  -> [message |-> ruleMessage(rule), execution |-> 0, creation |-> 0]
               [] out = "true"   -> rest

\* The loop of lines 170-191 over the rules of one field.
RECURSIVE applyRules(_, _)
applyRules(fieldRules, value) ==
    IF fieldRules = << >> THEN [message |-> "", execution |-> 0, creation |-> 0]
    ELSE LET rule == Head(fieldRules)
             out  == RunSnippet(rule.generated_code, value)
             rest == applyRules(Tail(fieldRules), value)
         IN  CASE out = "syntax" -> [rest EXCEPT !.creation = @ + 1]
               [] out = "throw"  -> [rest EXCEPT !.execution = @ + 1]
               [] out = "false"  -> [message |-> ruleMessage(rule), execution |-> 0, creation |-> 0]
               [] out = "true"   -> rest

\* Mutant of rulesOf: the rules are not filtered by field.
rulesOfAnyField(rules, id) == rules

\* validationRules.filter(rule => rule.field_id === fieldId)  (line 166)
rulesOf(rules, id) == SelectSeq(rules, LAMBDA r : r.field_id = id)

\* validateField (lines 164-193): the message, and the console.error calls made.
validateField(rules, value, id) ==
    LET fieldRules == rulesOf(rules, id)
    IN  IF Len(fieldRules) = 0 THEN [message |-> "", execution |-> 0, creation |-> 0]
        ELSE applyRules(fieldRules, value)

\* The console.error calls of validateField over the entries under keys.
RECURSIVE consoleOver(_, _, _)
consoleOver(rules, values, keys) ==
    IF keys = {} THEN [duplicate |-> 0, execution |-> 0, creation |-> 0]
    ELSE LET k == CHOOSE y \in keys : TRUE
             r == validateField(rules, values[k], fieldId(k))
             rest == consoleOver(rules, values, keys \ {k})
         IN  [rest EXCEPT !.execution = @ + r.execution, !.creation = @ + r.creation]

\* Mutant of validateForm: the loop stops at the first field that fails.
validateFormFirstOnly(rules, values) ==
    LET failed == {k \in DOMAIN values : validateField(rules, values[k], fieldId(k)).message # ""}
        first == CHOOSE k \in failed : TRUE
    IN  IF failed = {} THEN EmptyMap
        ELSE [id \in {fieldId(first)} |-> validateField(rules, values[first], id).message]

\* The forEach of lines 234-241: newErrors.  Keys written by fieldKey hold no
\* hyphen, so distinct keys give distinct ids.
validateForm(rules, values) ==
    LET ids == {fieldId(k) : k \in DOMAIN values}
        keyOf(id) == CHOOSE k \in DOMAIN values : fieldId(k) = id
        failed == {id \in ids : validateField(rules, values[keyOf(id)], id).message # ""}
    IN  [id \in failed |-> validateField(rules, values[keyOf(id)], id).message]

validateFormConsole(rules, values) == consoleOver(rules, values, DOMAIN values)

----------------------------------------------------------------------------
(* Status, timers, outcomes of the submit collaborator *)

EmptyStatus == [type |-> "", message |-> ""]
FormErrorStatus == [type |-> "error", message |-> "Please correct the form errors"]
SuccessStatus == [type |-> "success", message |-> "Form submitted successfully!"]

\* What onSubmit may reject with: an Error with a message, an Error with
\* none, a value that is no Error.
Failures == { [isError |-> TRUE,  message |-> "Network down"],
              [isError |-> TRUE,  message |-> ""],
              [isError |-> FALSE, message |-> "ignored"] }

\* Mutant of failureStatus: the message is read off whatever was thrown.
failureStatusNoFallback(failure) == [type |-> "error", message |-> failure.message]

\* error instanceof Error ? error.message : 'Failed to submit form'  (line 268)
failureStatus(failure) ==
    [type |-> "error",
     message |-> IF failure.isError THEN failure.message ELSE "Failed to submit form"]

NoTimer == [set |-> FALSE, delay |-> 0, elapsed |-> 0]

\* setTimeout(callback, delay)
Timer(delay) == [set |-> TRUE, delay |-> delay, elapsed |-> 0]

Due(t) == t.set /\ t.elapsed >= t.delay

\* One second passes for a pending timer; a timer that is due stays due.
Age(t) == IF t.set /\ t.elapsed < t.delay THEN [t EXCEPT !.elapsed = @ + 1] ELSE t

\* Mutant of statusEffect: the effect never sets its timer.
statusEffectNoTimer(newStatus) == NoTimer

\* The status effect (lines 148-155) after a render in which setStatus was
\* called: the cleanup clears the old timer, a success status sets a new one.
statusEffect(newStatus) ==
    IF newStatus.type = "success" THEN Timer(DisplayWindow) ELSE NoTimer

\* Mutant of resetTimer: the delay argument is left out.
resetTimerNoDelay == Timer(0)

\* setTimeout(() => { setFormData({}) }, 5000)  (lines 261-263)
resetTimer == Timer(DisplayWindow)

RemoveAt(s, i) == [j \in 1..(Len(s) - 1) |-> IF j < i THEN s[j] ELSE s[j + 1]]

Step(op, outcome, arg, console, stale) ==
    [op |-> op, outcome |-> outcome, arg |-> arg, console |-> console, stale |-> stale]

NoArg == << >>

\* No function is being tried.
NoTrial == [fn |-> "none"]

----------------------------------------------------------------------------
Init ==
    /\ validationRules \in RuleSets
    /\ formData = EmptyMap
    /\ errors = EmptyMap
    /\ status = EmptyStatus
    /\ isSubmitting = FALSE
    /\ submissionInProgress = FALSE
    /\ inflight = << >>
    /\ statusTimer = NoTimer
    /\ resetTimers = << >>
    /\ mounted = TRUE
    /\ filePreview = EmptyMap
    /\ handles = << >>
    /\ pendingReads = << >>
    /\ checked = << >>
    /\ trial = NoTrial
    /\ awaitEdits = EmptyMap
    /\ last = Step("mount", "", NoArg, NoConsole, FALSE)

\* Mutant of storeEdit: an edit made while a submission runs is dropped.
storeEditUnlessSubmitting(values, key, value) ==
    IF isSubmitting THEN values ELSE Put(values, key, value)

\* setFormData(prev => ({ ...prev, [fieldKey]: value }))  (line 203)
storeEdit(values, key, value) == Put(values, key, value)

\* Mutant of recordError: a passing edit leaves the old message.
recordErrorNeverCleared(errs, name, message) ==
    IF message # "" THEN Put(errs, name, message) ELSE errs

\* The setErrors calls of lines 205-213
recordError(errs, name, message) ==
    IF message # "" THEN Put(errs, name, message) ELSE Delete(errs, name)

\* handleChange (lines 195-214)
handleChange(name, value) ==
    LET result == validateField(validationRules, value, name)
    IN  /\ mounted
        /\ formData' = storeEdit(formData, fieldKey(name), value)
        /\ errors' = recordError(errors, name, result.message)
        /\ awaitEdits' = IF inflight # << >> THEN Put(awaitEdits, fieldKey(name), value)
                         ELSE Delete(awaitEdits, fieldKey(name))
        /\ last' = Step("handleChange", "", [name |-> name, value |-> value],
                        [NoConsole EXCEPT !.execution = result.execution,
                                          !.creation = result.creation], FALSE)
        /\ UNCHANGED <<fieldVars, validationRules, status, isSubmitting, submissionInProgress,
                       inflight, statusTimer, resetTimers, mounted>>

\* Mutant of duplicateSubmission: the guard is left out.
guardOmitted == FALSE

\* submissionInProgress.current || isSubmitting  (line 220)
duplicateSubmission == submissionInProgress \/ isSubmitting

\* Mutant of hasErrors: the flag is never raised.
hasErrorsNeverSet(newErrors) == FALSE

\* hasErrors after the forEach (lines 232-243)
hasErrors(newErrors) == DOMAIN newErrors # {}

\* Mutant of dropDuplicate: the duplicate is reported to the user.
dropDuplicateShown ==
    /\ status' = [type |-> "error", message |-> "Submission already in progress"]
    /\ statusTimer' = NoTimer
    /\ last' = Step("handleSubmit", "rejected", NoArg, [NoConsole EXCEPT !.duplicate = 1], FALSE)
    /\ UNCHANGED <<fieldVars, validationRules, formData, errors, isSubmitting,
                   submissionInProgress, inflight, resetTimers, mounted, awaitEdits>>

\* handleSubmit, the guard taken (lines 220-223)
dropDuplicate ==
    /\ last' = Step("handleSubmit", "rejected", NoArg, [NoConsole EXCEPT !.duplicate = 1], FALSE)
    /\ UNCHANGED <<fieldVars, validationRules, formData, errors, status, isSubmitting,
                   submissionInProgress, inflight, statusTimer, resetTimers, mounted,
                   awaitEdits>>

\* Mutant of rejectInvalid: the return of line 249 skips the finally block.
rejectInvalidGuardKept(newErrors, console) ==
    /\ errors' = newErrors
    /\ status' = FormErrorStatus
    /\ statusTimer' = statusEffect(FormErrorStatus)
    /\ isSubmitting' = TRUE
    /\ submissionInProgress' = TRUE
    /\ last' = Step("handleSubmit", "invalid", NoArg, console, FALSE)
    /\ UNCHANGED <<fieldVars, validationRules, formData, inflight, resetTimers, mounted, awaitEdits>>

\* handleSubmit, validation failed (lines 225-227, 243-250, 270-273)
rejectInvalid(newErrors, console) ==
    /\ errors' = newErrors
    /\ status' = FormErrorStatus
    /\ statusTimer' = statusEffect(FormErrorStatus)
    /\ isSubmitting' = FALSE
    /\ submissionInProgress' = FALSE
    /\ last' = Step("handleSubmit", "invalid", NoArg, console, FALSE)
    /\ UNCHANGED <<fieldVars, validationRules, formData, inflight, resetTimers, mounted, awaitEdits>>

\* handleSubmit, validation passed, up to the await (lines 225-227, 253).
\* An onSubmit that throws at once or returns no promise is a call that
\* settles before the next event.
callOnSubmit(console) ==
    /\ isSubmitting' = TRUE
    /\ submissionInProgress' = TRUE
    /\ status' = EmptyStatus
    /\ statusTimer' = statusEffect(EmptyStatus)
    /\ inflight' = Append(inflight, formData)
    /\ awaitEdits' = EmptyMap
    /\ last' = Step("handleSubmit", "called", [shown |-> status, awaitEdits |-> awaitEdits],
                    console, FALSE)
    /\ UNCHANGED <<fieldVars, validationRules, formData, errors, resetTimers, mounted>>

\* handleSubmit (lines 216-274), up to its return or its await.
handleSubmit ==
    /\ mounted
    /\ Len(resetTimers) < MaxResetTimers
    /\ Len(inflight) < MaxInFlight
    /\ IF duplicateSubmission
       THEN dropDuplicate
       ELSE LET newErrors == validateForm(validationRules, formData)
                console == validateFormConsole(validationRules, formData)
            IN  IF hasErrors(newErrors)
                THEN rejectInvalid(newErrors, console)
                ELSE callOnSubmit(console)

\* The await of line 253 resumes: lines 254-263, 270-273.  The state setters
\* of an unmounted component do nothing; setTimeout and the ref still act.
submitResolved(i) ==
    /\ i \in DOMAIN inflight
    /\ inflight' = RemoveAt(inflight, i)
    /\ submissionInProgress' = FALSE
    /\ resetTimers' = Append(resetTimers, resetTimer)
    /\ IF mounted
       THEN /\ status' = SuccessStatus
            /\ statusTimer' = statusEffect(SuccessStatus)
            /\ errors' = EmptyMap
            /\ isSubmitting' = FALSE
       ELSE UNCHANGED <<status, statusTimer, errors, isSubmitting>>
    /\ last' = Step("onSubmit", "resolved", NoArg, NoConsole, ~mounted)
    /\ UNCHANGED <<fieldVars, validationRules, formData, mounted, awaitEdits>>

\* The await of line 253 throws: lines 265-273.
submitRejected(i, failure) ==
    /\ i \in DOMAIN inflight
    /\ inflight' = RemoveAt(inflight, i)
    /\ submissionInProgress' = FALSE
    /\ IF mounted
       THEN /\ status' = failureStatus(failure)
            /\ statusTimer' = statusEffect(failureStatus(failure))
            /\ isSubmitting' = FALSE
       ELSE UNCHANGED <<status, statusTimer, isSubmitting>>
    /\ last' = Step("onSubmit", "rejected", failure, NoConsole, ~mounted)
    /\ UNCHANGED <<fieldVars, validationRules, formData, errors, resetTimers, mounted, awaitEdits>>

\* The timer callback of lines 150-152.
statusTimerFires ==
    /\ Due(statusTimer)
    /\ status' = EmptyStatus
    /\ statusTimer' = statusEffect(EmptyStatus)
    /\ last' = Step("statusTimer", "fired", NoArg, NoConsole, FALSE)
    /\ UNCHANGED <<fieldVars, validationRules, formData, errors, isSubmitting,
                   submissionInProgress, inflight, resetTimers, mounted, awaitEdits>>

\* Mutant of resetValues: the values of a submission under way are kept.
resetValuesUnlessSubmitting(values) == IF inflight # << >> THEN values ELSE EmptyMap

\* setFormData({})  (line 262)
resetValues(values) == EmptyMap

\* The timer callback of lines 261-263.
resetTimerFires(i) ==
    /\ i \in DOMAIN resetTimers
    /\ Due(resetTimers[i])
    /\ resetTimers' = RemoveAt(resetTimers, i)
    /\ formData' = IF mounted THEN resetValues(formData) ELSE formData
    /\ awaitEdits' = IF mounted THEN EmptyMap ELSE awaitEdits
    /\ last' = Step("resetTimer", "fired", NoArg, NoConsole, ~mounted)
    /\ UNCHANGED <<fieldVars, validationRules, errors, status, isSubmitting,
                   submissionInProgress, inflight, statusTimer, mounted>>

\* One second passes.
Tick ==
    /\ \/ statusTimer.set /\ ~Due(statusTimer)
       \/ \E i \in DOMAIN resetTimers : ~Due(resetTimers[i])
    /\ statusTimer' = Age(statusTimer)
    /\ resetTimers' = [i \in DOMAIN resetTimers |-> Age(resetTimers[i])]
    /\ last' = Step("tick", "", NoArg, NoConsole, FALSE)
    /\ UNCHANGED <<fieldVars, validationRules, formData, errors, status, isSubmitting,
                   submissionInProgress, inflight, mounted, awaitEdits>>

Range(m) == {m[k] : k \in DOMAIN m}

\* URL.revokeObjectURL on each of urls
Revoke(hs, urls) == [h \in DOMAIN hs |-> IF h \in urls THEN hs[h] + 1 ELSE hs[h]]

\* The filePreview the cleanup of lines 158-162 closes over: its effect has
\* no dependencies, so it is the value of the first render (line 144).
previewsSeenByCleanup == EmptyMap

\* Unmount: the cleanups of the status effect (line 153) and of the preview
\* effect (lines 159-161) run.
unmount ==
    /\ mounted
    /\ mounted' = FALSE
    /\ statusTimer' = NoTimer
    /\ handles' = Revoke(handles, Range(previewsSeenByCleanup))
    /\ last' = Step("unmount", "", NoArg, NoConsole, FALSE)
    /\ UNCHANGED <<filePreview, pendingReads, checked, trial,
                   validationRules, formData, errors, status, isSubmitting,
                   submissionInProgress, inflight, resetTimers, awaitEdits>>

Next ==
    \/ \E name \in FieldIds, value \in Values : handleChange(name, value)
    \/ handleSubmit
    \/ \E i \in DOMAIN inflight : submitResolved(i)
    \/ \E i \in DOMAIN inflight, failure \in Failures : submitRejected(i, failure)
    \/ statusTimerFires
    \/ \E i \in DOMAIN resetTimers : resetTimerFires(i)
    \/ Tick
    \/ unmount

Spec == Init /\ [][Next]_vars

----------------------------------------------------------------------------
(* The validation engine on its own: validateField and the validation loop *)
(* of handleSubmit, tried on every rule list up to MaxRules rules.         *)

\* The longest rule list tried.
MaxRules == 2

\* The snippets tried: one per outcome of running a rule.
TrialSnippets == {"nonEmpty", "never", "throws", "syntaxError"}

\* The three ways a rule is worded are tried on the rule that always fails.
TrialRules ==
    { [field_id |-> f, generated_code |-> c,
       prompt |-> "Enter a value", description |-> "Must not be empty"] :
        f \in FieldIds, c \in TrialSnippets \ {"never"} }
    \cup
    { [field_id |-> f, generated_code |-> "never", prompt |-> m[1], description |-> m[2]] :
        f \in FieldIds,
        m \in { <<"Never valid", "No value passes">>, <<"", "No value passes">>, <<"", "">> } }

RuleLists == UNION { [1..n -> TrialRules] : n \in 0..MaxRules }

\* Every formData over the keys of the schema.
ValueMaps == UNION { [K -> Values] : K \in SUBSET {fieldKey(id) : id \in FieldIds} }

ValidateTrials ==
    { [fn |-> "validateField", done |-> FALSE, rules |-> r, value |-> v, id |-> f,
       out |-> NoConsole] : r \in RuleLists, v \in Values, f \in FieldIds }
    \cup
    { [fn |-> "validateForm", done |-> FALSE, rules |-> r, values |-> m,
       out |-> EmptyMap] : r \in RuleLists, m \in ValueMaps }

\* A freshly mounted component, but for the rules and the trial.
Fresh ==
    /\ formData = EmptyMap
    /\ errors = EmptyMap
    /\ status = EmptyStatus
    /\ isSubmitting = FALSE
    /\ submissionInProgress = FALSE
    /\ inflight = << >>
    /\ statusTimer = NoTimer
    /\ resetTimers = << >>
    /\ mounted = TRUE
    /\ filePreview = EmptyMap
    /\ handles = << >>
    /\ pendingReads = << >>
    /\ checked = << >>
    /\ awaitEdits = EmptyMap
    /\ last = Step("mount", "", NoArg, NoConsole, FALSE)

InitValidate ==
    /\ validationRules = NoRules
    /\ trial \in ValidateTrials
    /\ Fresh

\* validateField(value, fieldId) is called (line 164).
tryValidateField ==
    /\ trial.fn = "validateField" /\ ~trial.done
    /\ trial' = [trial EXCEPT !.done = TRUE,
                              !.out = validateField(trial.rules, trial.value, trial.id)]
    /\ UNCHANGED <<validationRules, formData, errors, status, isSubmitting,
                   submissionInProgress, inflight, statusTimer, resetTimers, mounted,
                   filePreview, handles, pendingReads, checked, awaitEdits, last>>

\* The validation loop of handleSubmit runs over formData (lines 231-241).
tryValidateForm ==
    /\ trial.fn = "validateForm" /\ ~trial.done
    /\ trial' = [trial EXCEPT !.done = TRUE,
                              !.out = validateForm(trial.rules, trial.values)]
    /\ UNCHANGED <<validationRules, formData, errors, status, isSubmitting,
                   submissionInProgress, inflight, statusTimer, resetTimers, mounted,
                   filePreview, handles, pendingReads, checked, awaitEdits, last>>

NextValidate == tryValidateField \/ tryValidateForm

SpecValidate == InitValidate /\ [][NextValidate]_vars

FieldTried == trial.fn = "validateField" /\ trial.done

\* The rules of the tried field, in the order supplied.
TriedRules == SelectSeq(trial.rules, LAMBDA r : r.field_id = trial.id)

Outcome(n) == RunSnippet(TriedRules[n].generated_code, trial.value)

\* The rules evaluated: up to and including the first whose result is false.
Evaluated ==
    {n \in DOMAIN TriedRules : \A m \in 1..(n - 1) : Outcome(m) # "false"}

\* C12: for a field none of whose rules match, validateField returns the
\* empty message, whatever the value and whatever rules other fields have.
C12_NoRulesNoError ==
    (FieldTried /\ TriedRules = << >>) => trial.out.message = ""

C12_Witness ==
    /\ FieldTried /\ TriedRules = << >> /\ trial.out.message = ""
    /\ Len(trial.rules) = 2 /\ trial.value = ""
    /\ \A n \in DOMAIN trial.rules : trial.rules[n].generated_code = "never"

\* C13: validateField returns the message of the first rule, in the order
\* supplied, whose result is false (prompt, else description, else "Invalid
\* input") and runs no rule after it; it returns the empty message exactly
\* when no rule's result is false.
C13_FirstFailingRuleWins ==
    (FieldTried /\ TriedRules # << >>)
       => /\ \A n \in Evaluated :
                Outcome(n) = "false"
                => trial.out.message =
                      (IF TriedRules[n].prompt # "" THEN TriedRules[n].prompt
                       ELSE IF TriedRules[n].description # "" THEN TriedRules[n].description
                       ELSE "Invalid input")
          /\ (trial.out.message = "") <=> (\A n \in DOMAIN TriedRules : Outcome(n) # "false")
          /\ trial.out.execution = Cardinality({n \in Evaluated : Outcome(n) = "throw"})
          /\ trial.out.creation = Cardinality({n \in Evaluated : Outcome(n) = "syntax"})

C13_Witness ==
    /\ FieldTried /\ Len(TriedRules) = 2
    /\ Outcome(1) = "false" /\ Outcome(2) = "throw"
    /\ TriedRules[1].prompt = "" /\ TriedRules[1].description = ""
    /\ trial.out.message = "Invalid input" /\ trial.out.execution = 0

\* C14: for a field all of whose rules throw, validateField returns the
\* empty message for every value and logs one execution error per rule run.
C14_ThrowingRuleFailsOpen ==
    (FieldTried /\ TriedRules # << >>
       /\ \A n \in DOMAIN TriedRules : TriedRules[n].generated_code = "throws")
       => /\ trial.out.message = ""
          /\ trial.out.execution = Len(TriedRules)
          /\ trial.out.creation = 0

C14_Witness ==
    /\ FieldTried /\ trial.id = passport_number_id /\ Len(TriedRules) = 2
    /\ \A n \in DOMAIN TriedRules : TriedRules[n].generated_code = "throws"
    /\ trial.out.message = "" /\ trial.out.execution = 2

\* The rules after the first whose result is false.
LaterFailing == {n \in DOMAIN TriedRules : n > 1 /\ Outcome(n) = "false"}

\* C27: when the first rule of a field throws, at execution or at
\* construction, it is logged and the later rules still decide: the message
\* is that of the first later rule whose result is false, and empty if
\* there is none.
C27_ThrowingRuleSkipped ==
    (FieldTried /\ TriedRules # << >> /\ Outcome(1) \in {"throw", "syntax"})
       => /\ LaterFailing = {} => trial.out.message = ""
          /\ LaterFailing # {}
                => LET n == CHOOSE m \in LaterFailing : \A l \in LaterFailing : m <= l
                   IN  /\ trial.out.message # ""
                       /\ trial.out.message \in {TriedRules[n].prompt, TriedRules[n].description,
                                                 "Invalid input"}
          /\ Outcome(1) = "throw" => trial.out.execution >= 1
          /\ Outcome(1) = "syntax" => trial.out.creation >= 1

C27_Witness ==
    /\ FieldTried /\ Len(TriedRules) = 2
    /\ Outcome(1) = "throw" /\ Outcome(2) = "false"
    /\ trial.out.message = "Never valid" /\ trial.out.execution = 1

FormTried == trial.fn = "validateForm" /\ trial.done

\* C15: the errors the validation loop produces have an entry exactly for
\* the entries of formData whose validateField message is not empty, under
\* the hyphenated field id and with that message.
C15_AllFailingFieldsReported ==
    FormTried
       => /\ DOMAIN trial.out =
                {id \in FieldIds :
                    /\ fieldKey(id) \in DOMAIN trial.values
                    /\ validateField(trial.rules, trial.values[fieldKey(id)], id).message # ""}
          /\ \A id \in DOMAIN trial.out :
                trial.out[id] = validateField(trial.rules, trial.values[fieldKey(id)], id).message

C15_Witness ==
    /\ FormTried /\ DOMAIN trial.out = FieldIds
    /\ DOMAIN trial.values = {fieldKey(id) : id \in FieldIds}

----------------------------------------------------------------------------
(* The formatters: handlePhoneChange and handleCurrencyChange, tried on    *)
(* every input up to a length.  Values are sequences of characters here.   *)
(* The schema of this form has no phone or currency field; the handlers    *)
(* take the field name from the event.                                     *)

\* The longest phone input tried.
MaxPhoneLen == 12
\* The longest currency input tried.
MaxCurrencyLen == 6

phone_id == <<"p","h","o","n","e">>
amount_id == <<"a","m","o","u","n","t">>

Digits == {"0","1","2","3","4","5","6","7","8","9"}

Strings(alphabet, n) == UNION { [1..k -> alphabet] : k \in 0..n }

Min(a, b) == IF a <= b THEN a ELSE b

\* value.replace(/\D/g, '')  (line 373)
cleaned(value) == SelectSeq(value, LAMBDA c : c \in Digits)

\* Mutant of phoneMatch: the groups are \d{0,3}, \d{0,4}, \d{0,3}.
phoneMatchWrongGroups(digits) ==
    LET n == Len(digits)
    IN  IF n > 10 THEN [matched |-> FALSE, groups |-> << >>]
        ELSE [matched |-> TRUE,
              groups |-> << SubSeq(digits, 1, Min(3, n)),
                            SubSeq(digits, 4, Min(7, n)),
                            SubSeq(digits, 8, n) >>]

\* cleaned.match(/^(\d{0,3})(\d{0,3})(\d{0,4})$/)  (line 374): the groups are
\* greedy, and more than ten digits do not match.
phoneMatch(digits) ==
    LET n == Len(digits)
    IN  IF n > 10 THEN [matched |-> FALSE, groups |-> << >>]
        ELSE [matched |-> TRUE,
              groups |-> << SubSeq(digits, 1, Min(3, n)),
                            SubSeq(digits, 4, Min(6, n)),
                            SubSeq(digits, 7, n) >>]

\* formatPhoneNumber (lines 372-381)
formatPhoneNumber(value) ==
    LET match == phoneMatch(cleaned(value))
    IN  IF match.matched
        THEN IF match.groups[2] = << >> THEN match.groups[1]
             ELSE IF match.groups[3] = << >>
                  THEN <<"(">> \o match.groups[1] \o <<")", " ">> \o match.groups[2]
                  ELSE <<"(">> \o match.groups[1] \o <<")", " ">> \o match.groups[2]
                          \o <<"-">> \o match.groups[3]
        ELSE value

DigitValue(c) ==
    CASE c = "0" -> 0 [] c = "1" -> 1 [] c = "2" -> 2 [] c = "3" -> 3 [] c = "4" -> 4
      [] c = "5" -> 5 [] c = "6" -> 6 [] c = "7" -> 7 [] c = "8" -> 8 [] c = "9" -> 9

DigitChar(n) == CHOOSE c \in Digits : DigitValue(c) = n

\* The number a run of digits denotes.
RECURSIVE ToNat(_)
ToNat(digits) ==
    IF digits = << >> THEN 0
    ELSE 10 * ToNat(SubSeq(digits, 1, Len(digits) - 1)) + DigitValue(digits[Len(digits)])

\* The decimal digits of a number.
RECURSIVE ToDigits(_)
ToDigits(n) == IF n < 10 THEN <<DigitChar(n)>> ELSE ToDigits(n \div 10) \o <<DigitChar(n % 10)>>

\* The longest run of digits s starts with from position i.
RECURSIVE DigitRun(_, _)
DigitRun(s, i) ==
    IF i > Len(s) \/ s[i] \notin Digits THEN << >> ELSE <<s[i]>> \o DigitRun(s, i + 1)

\* parseFloat(value) (line 386): the number the longest numeric prefix
\* denotes, NaN if there is none.  Signs, exponents, blanks and Infinity are
\* not among the inputs tried.
parseFloat(value) ==
    LET whole == DigitRun(value, 1)
        dot == Len(whole) + 1
        fraction == IF dot <= Len(value) /\ value[dot] = "." THEN DigitRun(value, dot + 1)
                    ELSE << >>
    IN  IF whole = << >> /\ fraction = << >> THEN [nan |-> TRUE, whole |-> << >>, fraction |-> << >>]
        ELSE [nan |-> FALSE, whole |-> whole, fraction |-> fraction]

\* Number.prototype.toFixed(2) (line 386).  It rounds on the binary value;
\* on the inputs tried no third decimal is a 5, where that differs from
\* rounding the decimal digits.
toFixed2(number) ==
    IF number.nan THEN <<"N", "a", "N">>
    ELSE LET padded == number.fraction \o <<"0", "0", "0">>
             hundredths == 100 * ToNat(number.whole) + ToNat(SubSeq(padded, 1, 2))
                              + (IF DigitValue(padded[3]) >= 5 THEN 1 ELSE 0)
             cents == hundredths % 100
         IN  ToDigits(hundredths \div 100) \o <<".">>
                \o <<DigitChar(cents \div 10), DigitChar(cents % 10)>>

\* handlePhoneChange (lines 365-370)
handlePhoneChange(name, value) ==
    /\ mounted
    /\ formData' = Put(formData, fieldKey(name), formatPhoneNumber(value))
    /\ last' = Step("handlePhoneChange", "", [name |-> name, value |-> value], NoConsole, FALSE)
    /\ UNCHANGED <<validationRules, errors, status, isSubmitting, submissionInProgress,
                   inflight, statusTimer, resetTimers, mounted, filePreview, handles,
                   pendingReads, checked, awaitEdits>>

\* handleCurrencyChange (lines 383-388)
handleCurrencyChange(name, value) ==
    /\ mounted
    /\ formData' = Put(formData, fieldKey(name), toFixed2(parseFloat(value)))
    /\ last' = Step("handleCurrencyChange", "", [name |-> name, value |-> value], NoConsole, FALSE)
    /\ UNCHANGED <<validationRules, errors, status, isSubmitting, submissionInProgress,
                   inflight, statusTimer, resetTimers, mounted, filePreview, handles,
                   pendingReads, checked, awaitEdits>>

\* Phone inputs written out: ten digits bare, formatted and with dashes, a
\* partial number, eleven digits.
PhoneSamples ==
    { <<"1","2","3","4","5","6","7","8","9","0">>,
      <<"(","1","2","3",")"," ","4","5","6","-","7","8","9","0">>,
      <<"1","2","3","-","4","5","6","-","7","8","9","0">>,
      <<"(","1","2","3",")"," ","4","5">>,
      <<"1","2","3","4","5","6","7">>,
      <<"(","1","2","3",")"," ","4","5","6","-","7","8","9","0","1">> }

PhoneInputs == Strings({"1", "a"}, MaxPhoneLen) \cup PhoneSamples

CurrencyInputs == Strings({"1", "2", ".", "a"}, MaxCurrencyLen)

\* initialData (line 137): none, or an amount entered before.
AmountEntered == [k \in {fieldKey(amount_id)} |-> <<"1", ".", "0", "0">>]

InitFormat ==
    /\ validationRules = NoRules
    /\ \/ /\ trial \in {[fn |-> "phone", done |-> FALSE, value |-> v] : v \in PhoneInputs}
          /\ formData = EmptyMap
       \/ /\ trial \in {[fn |-> "currency", done |-> FALSE, value |-> v] : v \in CurrencyInputs}
          /\ formData \in {EmptyMap, AmountEntered}
    /\ errors = EmptyMap
    /\ status = EmptyStatus
    /\ isSubmitting = FALSE
    /\ submissionInProgress = FALSE
    /\ inflight = << >>
    /\ statusTimer = NoTimer
    /\ resetTimers = << >>
    /\ mounted = TRUE
    /\ filePreview = EmptyMap
    /\ handles = << >>
    /\ pendingReads = << >>
    /\ checked = << >>
    /\ awaitEdits = EmptyMap
    /\ last = Step("mount", "", NoArg, NoConsole, FALSE)

\* The phone input fires its change event with the input under trial.
phoneEdited ==
    /\ trial.fn = "phone" /\ ~trial.done
    /\ trial' = [trial EXCEPT !.done = TRUE]
    /\ handlePhoneChange(phone_id, trial.value)

\* The currency input fires its change event with the input under trial.
currencyEdited ==
    /\ trial.fn = "currency" /\ ~trial.done
    /\ trial' = [trial EXCEPT !.done = TRUE]
    /\ handleCurrencyChange(amount_id, trial.value)

NextFormat == phoneEdited \/ currencyEdited

SpecFormat == InitFormat /\ [][NextFormat]_vars

PhoneTried == trial.fn = "phone" /\ trial.done

StoredPhone == formData[fieldKey(phone_id)]

\* The digits of the input under trial.
TriedDigits == SelectSeq(trial.value, LAMBDA c : c \in Digits)

\* C16: for an input of at most ten digits the stored phone number is the
\* digits alone (up to 3), "(AAA) B.." (4 to 6) or "(AAA) BBB-C.." (7 to 10),
\* and formatting the stored value again returns it unchanged.
C16_PhoneFormatIdempotent ==
    (PhoneTried /\ Len(TriedDigits) <= 10)
       => LET d == TriedDigits
              n == Len(d)
          IN  /\ n <= 3 => StoredPhone = d
              /\ (4 <= n /\ n <= 6)
                    => StoredPhone = <<"(">> \o SubSeq(d, 1, 3) \o <<")", " ">> \o SubSeq(d, 4, n)
              /\ 7 <= n
                    => StoredPhone = <<"(">> \o SubSeq(d, 1, 3) \o <<")", " ">> \o SubSeq(d, 4, 6)
                                        \o <<"-">> \o SubSeq(d, 7, n)
              /\ formatPhoneNumber(StoredPhone) = StoredPhone

C16_Witness ==
    /\ PhoneTried
    /\ trial.value = <<"1","2","3","-","4","5","6","-","7","8","9","0">>
    /\ StoredPhone = <<"(","1","2","3",")"," ","4","5","6","-","7","8","9","0">>

\* C17: after a phone edit the stored value is the formatted value: it
\* holds digits and the grouping characters "(", ")", " " and "-" only.
C17_PhoneStoredFormatted ==
    PhoneTried => \A n \in DOMAIN StoredPhone : StoredPhone[n] \in Digits \cup {"(", ")", " ", "-"}

\* The whole of s is a decimal number: digits, with at most one point.
IsNumber(s) ==
    /\ \E n \in DOMAIN s : s[n] \in Digits
    /\ \A n \in DOMAIN s : s[n] \in Digits \cup {"."}
    /\ Cardinality({n \in DOMAIN s : s[n] = "."}) <= 1

\* C18: a currency edit whose input is no number leaves the stored values
\* as they were and records an error for the field.
C18_BadCurrencyRejected ==
    [][ (last'.op = "handleCurrencyChange" /\ ~IsNumber(last'.arg.value))
           => (formData' = formData /\ last'.arg.name \in DOMAIN errors') ]_vars

----------------------------------------------------------------------------
(* The multi-checkbox and file handlers.  The checkboxes and the file      *)
(* input are the browser's: a checkbox alternates between ticked and       *)
(* unticked, a file read completes some time after it was started.         *)

\* The most preview URLs created.
MaxPreviews == 2
\* The most file reads under way at once.
MaxPendingReads == 2

\* A multi-checkbox field; the schema of this form has none, the handler
\* takes the field name from the event.
options_id == <<"o","p","t","i","o","n","s">>
Options == {"A", "B", "C"}

additional_documents_id ==
    <<"a","d","d","i","t","i","o","n","a","l","-","d","o","c","u","m","e","n","t","s">>

\* The files a user picks: an image and a document, with the parts of their
\* media types and their data URLs.
Files == { [type |-> <<"image", "png">>, data |-> "data:image/png;base64"],
           [type |-> <<"application", "pdf">>, data |-> "data:application/pdf;base64"] }

\* file.type.startsWith('image/')  (line 334)
isImage(file) == file.type[1] = "image"

\* (prev[fieldKey] as string || '')  (line 301)
currentText(values, key) == IF key \in DOMAIN values THEN values[key] ELSE << >>

\* String.prototype.split(',')
RECURSIVE split(_, _)
split(s, sep) ==
    IF \E n \in DOMAIN s : s[n] = sep
    THEN LET n == CHOOSE m \in DOMAIN s : s[m] = sep /\ \A l \in 1..(m - 1) : s[l] # sep
         IN  <<SubSeq(s, 1, n - 1)>> \o split(SubSeq(s, n + 1, Len(s)), sep)
    ELSE <<s>>

\* Array.prototype.filter(Boolean) on strings: the empty ones go.
filterBoolean(parts) == SelectSeq(parts, LAMBDA part : part # << >>)

\* Array.prototype.join(',')
RECURSIVE join(_, _)
join(parts, sep) ==
    IF parts = << >> THEN << >>
    ELSE IF Len(parts) = 1 THEN parts[1]
    ELSE parts[1] \o <<sep>> \o join(Tail(parts), sep)

\* Mutant of newValues: unticking removes nothing.
newValuesKeptOnUntick(currentValues, value, isChecked) ==
    IF isChecked THEN Append(currentValues, value) ELSE currentValues

\* newValues (lines 302-304)
newValues(currentValues, value, isChecked) ==
    IF isChecked THEN Append(currentValues, value)
    ELSE SelectSeq(currentValues, LAMBDA v : v # value)

\* handleMultiCheckboxChange (lines 296-324)
handleMultiCheckboxChange(name, value, isChecked) ==
    LET currentValues == filterBoolean(split(currentText(formData, fieldKey(name)), ","))
        newValue == join(newValues(currentValues, value, isChecked), ",")
        result == validateField(validationRules, newValue, name)
    IN  /\ mounted
        /\ formData' = Put(formData, fieldKey(name), newValue)
        /\ errors' = IF result.message # "" THEN Put(errors, name, result.message)
                     ELSE Delete(errors, name)
        /\ last' = Step("handleMultiCheckboxChange", "",
                        [name |-> name, value |-> value, checked |-> isChecked],
                        [NoConsole EXCEPT !.execution = result.execution,
                                          !.creation = result.creation], FALSE)
        /\ UNCHANGED <<validationRules, status, isSubmitting, submissionInProgress, inflight,
                       statusTimer, resetTimers, mounted, filePreview, handles, pendingReads,
                       trial, awaitEdits>>

\* URL.createObjectURL (line 335): one more URL, not revoked.
createObjectURL(hs) == Append(hs, 0)

\* handleFileChange (lines 326-353) up to reader.readAsDataURL(file)
handleFileChange(name, files) ==
    /\ mounted
    /\ IF Len(files) > 0
       THEN LET file == files[1]
            IN  /\ IF isImage(file)
                   THEN /\ Len(handles) < MaxPreviews
                        /\ handles' = createObjectURL(handles)
                        /\ filePreview' = Put(filePreview, fieldKey(name), Len(handles'))
                   ELSE UNCHANGED <<handles, filePreview>>
                /\ Len(pendingReads) < MaxPendingReads
                /\ pendingReads' = Append(pendingReads, [key |-> fieldKey(name), data |-> file.data])
       ELSE UNCHANGED <<handles, filePreview, pendingReads>>
    /\ last' = Step("handleFileChange", "", [name |-> name, files |-> Len(files)], NoConsole, FALSE)
    /\ UNCHANGED <<validationRules, formData, errors, status, isSubmitting,
                   submissionInProgress, inflight, statusTimer, resetTimers, mounted,
                   checked, trial, awaitEdits>>

\* reader.onloadend (lines 344-350) of the i-th read under way
onloadend(i) ==
    /\ i \in DOMAIN pendingReads
    /\ pendingReads' = RemoveAt(pendingReads, i)
    /\ formData' = IF mounted THEN Put(formData, pendingReads[i].key, pendingReads[i].data)
                   ELSE formData
    /\ last' = Step("onloadend", "", NoArg, NoConsole, ~mounted)
    /\ UNCHANGED <<validationRules, errors, status, isSubmitting, submissionInProgress,
                   inflight, statusTimer, resetTimers, mounted, filePreview, handles,
                   checked, trial, awaitEdits>>

InitFields ==
    /\ validationRules = NoRules
    /\ trial = NoTrial
    /\ Fresh

\* The user clicks one of the checkboxes.
checkboxClicked ==
    \E option \in Options :
       LET isChecked == \A n \in DOMAIN checked : checked[n] # option
       IN  /\ checked' = IF isChecked THEN Append(checked, option)
                         ELSE SelectSeq(checked, LAMBDA o : o # option)
           /\ handleMultiCheckboxChange(options_id, <<option>>, isChecked)

\* The user closes the file dialog, with a file picked or with none.
filesPicked ==
    \E files \in {<< >>} \cup {<<f>> : f \in Files} :
       handleFileChange(additional_documents_id, files)

fileRead == \E i \in DOMAIN pendingReads : onloadend(i)

NextFields == checkboxClicked \/ filesPicked \/ fileRead \/ unmount

SpecFields == InitFields /\ [][NextFields]_vars

StoredOptions == currentText(formData, fieldKey(options_id))

\* C19: the stored value of the multi-checkbox field is the ticked options
\* in the order they were ticked, separated by commas, none of them twice.
C19_StoredIsCheckedInOrder ==
    /\ Len(StoredOptions) = (IF checked = << >> THEN 0 ELSE 2 * Len(checked) - 1)
    /\ \A n \in DOMAIN checked : StoredOptions[2 * n - 1] = checked[n]
    /\ \A n \in DOMAIN StoredOptions : n % 2 = 0 => StoredOptions[n] = ","
    /\ \A n, m \in DOMAIN StoredOptions :
          (n # m /\ n % 2 = 1 /\ m % 2 = 1) => StoredOptions[n] # StoredOptions[m]

C19_Witness ==
    /\ last.op = "handleMultiCheckboxChange"
    /\ last.arg.value = <<"A">> /\ ~last.arg.checked
    /\ checked = <<"C">>
    /\ StoredOptions = <<"C">>

\* C20: a preview URL is revoked exactly once: when a later one takes its
\* place or when the component is unmounted; none is revoked twice.
C20_PreviewHandlesReleasedOnce ==
    \A h \in DOMAIN handles :
       /\ handles[h] <= 1
       /\ (~mounted \/ h < Len(handles)) => handles[h] = 1

----------------------------------------------------------------------------
(* The keys of formData and the ids of errors: every input of the form     *)
(* that is bound to handleChange is edited and submitted, with and         *)
(* without a rule on it.                                                   *)

\* The name attributes of the inputs bound to handleChange (lines 412-610).
applicant_full_name_id ==
    <<"a","p","p","l","i","c","a","n","t","-","f","u","l","l","-","n","a","m","e">>
applicant_email_id == <<"a","p","p","l","i","c","a","n","t","-","e","m","a","i","l">>
date_of_birth_id == <<"d","a","t","e","-","o","f","-","b","i","r","t","h">>
nationality_id == <<"n","a","t","i","o","n","a","l","i","t","y">>
visa_type_id == <<"v","i","s","a","-","t","y","p","e">>

InputNames ==
    { applicant_full_name_id, applicant_email_id, passport_number_id, date_of_birth_id,
      nationality_id, travel_dates_id, visa_type_id }

\* A rule list with one rule, on the field id: its value must not be empty.
RequiredRule(id) ==
    << [field_id |-> id, generated_code |-> "nonEmpty",
        prompt |-> "This field is required", description |-> ""] >>

InitKeys ==
    /\ \E id \in InputNames :
          /\ trial = [fn |-> "keys", id |-> id]
          /\ validationRules \in {NoRules, RequiredRule(id)}
    /\ Fresh

NextKeys ==
    \/ \E value \in Values : handleChange(trial.id, value)
    \/ handleSubmit
    \/ \E i \in DOMAIN inflight : submitResolved(i)
    \/ \E i \in DOMAIN inflight, failure \in Failures : submitRejected(i, failure)

SpecKeys == InitKeys /\ [][NextKeys]_vars

\* C24: the key an edit writes maps back to the id of the edited field at
\* submit: the submit writes its error under the id the edit used, and calls
\* onSubmit only if the rules of that id pass the stored value.
C24_KeyRoundTrip ==
    /\ \A k \in DOMAIN formData : fieldId(k) = trial.id /\ k = fieldKey(trial.id)
    /\ DOMAIN errors \subseteq {trial.id}
    /\ (last.op = "handleSubmit" /\ last.outcome # "rejected" /\ DOMAIN formData # {})
          => LET edited == validateField(validationRules, formData[fieldKey(trial.id)], trial.id)
             IN  /\ last.outcome = "invalid" <=> edited.message # ""
                 /\ last.outcome = "invalid" => errors = [id \in {trial.id} |-> edited.message]

C24_Witness ==
    /\ trial.id = date_of_birth_id
    /\ last.op = "handleSubmit" /\ last.outcome = "invalid"
    /\ DOMAIN errors = {date_of_birth_id}
    /\ DOMAIN formData = {<<"d","a","t","e","_","o","f","_","b","i","r","t","h">>}

----------------------------------------------------------------------------
(* Submission controller: duplicate submits *)

Accepted == last'.op = "handleSubmit" /\ ~submissionInProgress /\ ~isSubmitting

\* C1: at most one onSubmit call is in flight at any time; a submit request
\* made while one is in flight invokes nothing; an accepted request whose
\* validation passes invokes onSubmit exactly once, with the current values.
C1_SingleCollaboratorCall ==
    [][ /\ Len(inflight') <= 1
        /\ (last'.op = "handleSubmit" /\ inflight # << >>) => inflight' = inflight
        /\ (Accepted /\ validateForm(validationRules, formData) = EmptyMap)
              => inflight' = Append(inflight, formData) ]_vars

C1_Witness ==
    last.op = "handleSubmit" /\ last.outcome = "rejected" /\ Len(inflight) = 1

\* C2: a submit request made while the guard is set changes neither the
\* values, the errors, the status, the submission state nor any timer, and
\* is only logged.
C2_DuplicateIsNoOp ==
    [][ (last'.op = "handleSubmit" /\ (submissionInProgress \/ isSubmitting))
           => /\ UNCHANGED <<formData, errors, status, isSubmitting, submissionInProgress,
                             inflight, statusTimer, resetTimers>>
              /\ last'.console.duplicate = 1 ]_vars

C2_Witness ==
    /\ last.op = "handleSubmit" /\ last.outcome = "rejected"
    /\ last.console.duplicate = 1
    /\ isSubmitting /\ DOMAIN formData # {}

\* C3: when validation of an accepted submit request finds errors, they are
\* published, the status is the form-error message, the controller is idle
\* again and onSubmit is not called.
C3_InvalidFormNotSubmitted ==
    [][ (Accepted /\ validateForm(validationRules, formData) # EmptyMap)
           => /\ errors' = validateForm(validationRules, formData)
              /\ status' = [type |-> "error", message |-> "Please correct the form errors"]
              /\ ~isSubmitting' /\ ~submissionInProgress'
              /\ inflight' = inflight ]_vars

C3_Witness ==
    /\ last.op = "handleSubmit" /\ last.outcome = "invalid"
    /\ status.message = "Please correct the form errors"
    /\ DOMAIN errors # {} /\ inflight = << >> /\ ~isSubmitting

----------------------------------------------------------------------------
(* Submission controller: outcomes of the collaborator *)

C5_FailureKeepsValues ==
    [][ (last'.op = "onSubmit" /\ last'.outcome = "rejected" /\ mounted)
           => /\ status'.type = "error"
              /\ status'.message = IF last'.arg.isError THEN last'.arg.message
                                   ELSE "Failed to submit form"
              /\ formData' = formData
              /\ resetTimers' = resetTimers
              /\ ~isSubmitting' /\ ~submissionInProgress' ]_vars

C5_Witness ==
    /\ last.op = "onSubmit" /\ last.outcome = "rejected" /\ ~last.stale
    /\ status = [type |-> "error", message |-> "Failed to submit form"]
    /\ DOMAIN formData # {} /\ ~isSubmitting

----------------------------------------------------------------------------
(* Submission controller: what validation covers *)

\* C6: with no rules configured, an accepted submit request of a form whose
\* required field holds the empty string calls nothing, leaves the
\* controller idle and reports that field in the errors.
C6_RequiredEmptyBlocksSubmit ==
    [][ (Accepted /\ validationRules = << >>)
           => \A n \in DOMAIN form_data :
                (/\ form_data[n].required
                 /\ fieldKey(form_data[n].id) \in DOMAIN formData
                 /\ formData[fieldKey(form_data[n].id)] = "")
                => /\ inflight' = inflight
                   /\ ~isSubmitting'
                   /\ form_data[n].id \in DOMAIN errors'
                   /\ errors'[form_data[n].id] # "" ]_vars

\* C7: on an accepted submit request every field of the schema whose rules
\* reject the value it shows is reported in the errors and onSubmit is not
\* called, whether or not the field was ever edited.
C7_EveryFieldValidated ==
    [][ Accepted
           => \A id \in FieldIds :
                validateField(validationRules, currentValue(formData, id), id).message # ""
                => (id \in DOMAIN errors' /\ inflight' = inflight) ]_vars

----------------------------------------------------------------------------
(* Timers *)

\* C9: unmounting cancels the status timer and every form-reset timer, and
\* no timer fires once the component is unmounted.
C9_TimersCancelledOnDispose ==
    [][ /\ (mounted /\ ~mounted') => (~statusTimer'.set /\ resetTimers' = << >>)
        /\ ~mounted => last'.op \notin {"statusTimer", "resetTimer"} ]_vars

\* C11: a form-reset timer firing in a live session leaves both the values
\* and the errors empty.
C11_ResetEmptiesValuesAndErrors ==
    [][ (last'.op = "resetTimer" /\ mounted)
           => (formData' = EmptyMap /\ errors' = EmptyMap) ]_vars

IsPrefix(s, t) == Len(s) <= Len(t) /\ \A i \in DOMAIN s : t[i] = s[i]

\* C10: a success status shown has its own timer pending, which empties the
\* status when it fires, 5 seconds or more after the success, leaving the
\* reset timers and the values alone; a reset timer firing leaves the status
\* and its timer alone; a step that cancels or replaces the status timer
\* cancels and fires no reset timer.
C10_StatusTimerSeparate ==
    [][ /\ (mounted' /\ status'.type = "success") => statusTimer'.set
        /\ last'.op = "statusTimer"
           => /\ status' = [type |-> "", message |-> ""]
              /\ statusTimer.set /\ statusTimer.elapsed >= 5
              /\ resetTimers' = resetTimers
              /\ formData' = formData
        /\ last'.op = "resetTimer" => (statusTimer' = statusTimer /\ status' = status)
        /\ (statusTimer.set /\ statusTimer' # statusTimer
              /\ last'.op \notin {"statusTimer", "tick"})
           => IsPrefix(resetTimers, resetTimers') ]_vars

C10_Witness ==
    /\ last.op = "statusTimer" /\ status = [type |-> "", message |-> ""]
    /\ resetTimers # << >> /\ mounted

\* The keys of the schema's fields: their ids with "_" for "-".
SchemaKeys ==
    { <<"p","a","s","s","p","o","r","t","_","n","u","m","b","e","r">>,
      <<"t","r","a","v","e","l","_","d","a","t","e","s">> }

C22_ErrorsOnlySinceReset ==
    /\ \A id \in DOMAIN errors : id \in FieldIds /\ errors[id] # ""
    /\ (last.op = "resetTimer" /\ ~last.stale) => errors = EmptyMap

\* The onSubmit call awaited at line 253 settles in the end.
SpecSettling ==
    Spec /\ WF_vars(\E i \in DOMAIN inflight :
                       submitResolved(i) \/ \E failure \in Failures : submitRejected(i, failure))

\* C23: while the form is mounted a set guard is cleared again, and while
\* an onSubmit call has not settled every submit request is dropped.
C23_GuardReleased ==
    /\ (mounted /\ duplicateSubmission) ~> (~mounted \/ ~duplicateSubmission)
    /\ [][ (inflight # << >> /\ last'.op = "handleSubmit")
              => (last'.outcome = "rejected" /\ inflight' = inflight) ]_vars

C23_Witness ==
    /\ last.op = "onSubmit" /\ last.outcome = "rejected"
    /\ mounted
    /\ ~duplicateSubmission

\* C25: handleChange on a field stores the new value whether or not it
\* passes; the field has an error afterwards exactly if validateField
\* returns a message for the new value, and that message; the other
\* fields' values and errors, the status and the submission state stay.
C25_EditFrame ==
    [][ last'.op = "handleChange"
           => LET name == last'.arg.name
                  key == [n \in DOMAIN name |-> IF name[n] = "-" THEN "_" ELSE name[n]]
                  message == validateField(validationRules, last'.arg.value, name).message
              IN  /\ DOMAIN formData' = DOMAIN formData \cup {key}
                  /\ formData'[key] = last'.arg.value
                  /\ \A k \in DOMAIN formData \ {key} : formData'[k] = formData[k]
                  /\ name \in DOMAIN errors' <=> message # ""
                  /\ name \in DOMAIN errors' => errors'[name] = message
                  /\ DOMAIN errors' \ {name} = DOMAIN errors \ {name}
                  /\ \A id \in DOMAIN errors \ {name} : errors'[id] = errors[id]
                  /\ UNCHANGED <<status, statusTimer, isSubmitting, submissionInProgress,
                                 inflight, resetTimers, mounted>> ]_vars

\* A failing edit of one field while another holds a value.
C25_Witness ==
    /\ last.op = "handleChange"
    /\ last.arg.name = passport_number_id /\ last.arg.value = ""
    /\ DOMAIN errors = {passport_number_id}
    /\ DOMAIN formData = SchemaKeys
    /\ \A k \in DOMAIN formData : formData[k] = (IF fieldId(k) = passport_number_id THEN "" ELSE "x")

\* C26: a form-reset timer that fires on the mounted form has run its five
\* seconds, is gone afterwards and empties formData whatever it holds and
\* whatever submission is under way; every success adds a timer of its own,
\* and no other step removes or restarts a pending one.
C26_ResetDiscardsLaterValues ==
    [][ /\ (last'.op = "resetTimer" /\ mounted)
           => /\ formData' = EmptyMap
              /\ inflight' = inflight
              /\ \E i \in DOMAIN resetTimers :
                    /\ resetTimers[i].elapsed >= DisplayWindow
                    /\ resetTimers' = RemoveAt(resetTimers, i)
        /\ (last'.op = "onSubmit" /\ last'.outcome = "resolved")
           => /\ Len(resetTimers') = Len(resetTimers) + 1
              /\ \A i \in DOMAIN resetTimers : resetTimers'[i] = resetTimers[i]
        /\ last'.op \in {"handleChange", "handleSubmit", "statusTimer"}
           => resetTimers' = resetTimers
        /\ last'.op = "tick"
           => /\ Len(resetTimers') = Len(resetTimers)
              /\ \A i \in DOMAIN resetTimers :
                    resetTimers'[i].set /\ resetTimers'[i].elapsed >= resetTimers[i].elapsed ]_vars

\* The timer of a first success fires while a second submission, started
\* with values entered during the window, is awaited.
C26_Witness ==
    /\ last.op = "resetTimer" /\ ~last.stale
    /\ formData = EmptyMap
    /\ Len(inflight) = 1 /\ inflight[1] # EmptyMap

====
